---------------------------- MODULE Spec2Model ----------------------------
(***************************************************************************)
(* Model of the jarvis_assistant memory pipeline:                          *)
(*   preprocess.py    WhatsAppPreprocessor  (export -> facts -> SQLite)    *)
(*   memory_store.py  MemoryStore           (facts -> Chroma index, search)*)
(*   rag_engine.py    RAGEngine             (query, history, durable log)  *)
(*                                                                         *)
(* Text is a sequence of one-character strings, so that strip(), lower(),  *)
(* slicing, substring tests and concatenation are computed, not assumed.   *)
(* Python values whose type matters (dict fields of a message, JSON        *)
(* values) are tagged records [t |-> <type>, v |-> <payload>].             *)
(***************************************************************************)
EXTENDS Integers, Sequences, FiniteSets, TLC

VARIABLES
    tableExists,    \* facts.db holds the table "facts"
    facts,          \* rows of the table, in rowid order
    autoinc,        \* sqlite_sequence value for "facts": the largest id ever given
    index,          \* entries of the Chroma collection "jarvis_memory", in insertion order
    log,            \* lines of conversations.jsonl
    logExists,      \* conversations.jsonl exists
    proc,           \* "ready": a RAGEngine is constructed; "closed": close() was called on it
    config,         \* [llm, emb]: LLM_PROVIDER / EMBEDDING_PROVIDER the process was started with
    history,        \* RAGEngine.conversation_history
    loads,          \* load_conversation_history calls made on this engine
    now,            \* number of datetime.now() readings taken so far
    lastOp,         \* the operation performed by the last step
    outcome,        \* "ok" or the kind of exception the last operation raised
    trace,          \* the external calls / appends the last operation made, in order
    sent,           \* the message list of the last generation call (<<>> if none)
    ret,            \* the value the last operation returned
    arg,            \* what the last operation was given: its arguments, and what the
                    \* prompt, the backends and the file system answered
    cleared,        \* [at, restarted]: lines in the log at the last
                    \* clear_conversation_history (-1: none yet), and whether an
                    \* engine was constructed since
    exInput,        \* input handed to the extraction operation under study
    exOutput        \* what the extraction operation returned

vars == <<tableExists, facts, autoinc, index, log, logExists, proc, config, history,
          loads, now, lastOp, outcome, trace, sent, ret, arg, cleared, exInput, exOutput>>

storeVars == <<tableExists, facts, autoinc>>
logVars == <<log, logExists>>
engineVars == <<proc, config, history, loads, now>>
ghostVars == <<lastOp, outcome, trace, sent, ret, arg>>
extractVars == <<exInput, exOutput>>

-----------------------------------------------------------------------------
(* Python built-ins used by the code *)

Min(a, b) == IF a <= b THEN a ELSE b

Max(a, b) == IF a >= b THEN a ELSE b

\* str.isspace() for the characters that occur
Whitespace == {" ", "\t", "\n", "\r"}

UpperToLower ==
    [c \in {"A","B","C","D","E","F","G","H","I","J","K","L","M","N","O","P","Q",
            "R","S","T","U","V","W","X","Y","Z"} |->
        CASE c = "A" -> "a" [] c = "B" -> "b" [] c = "C" -> "c" [] c = "D" -> "d"
          [] c = "E" -> "e" [] c = "F" -> "f" [] c = "G" -> "g" [] c = "H" -> "h"
          [] c = "I" -> "i" [] c = "J" -> "j" [] c = "K" -> "k" [] c = "L" -> "l"
          [] c = "M" -> "m" [] c = "N" -> "n" [] c = "O" -> "o" [] c = "P" -> "p"
          [] c = "Q" -> "q" [] c = "R" -> "r" [] c = "S" -> "s" [] c = "T" -> "t"
          [] c = "U" -> "u" [] c = "V" -> "v" [] c = "W" -> "w" [] c = "X" -> "x"
          [] c = "Y" -> "y" [] c = "Z" -> "z"]

\* str.lower()
Lower(s) == [i \in 1..Len(s) |-> IF s[i] \in DOMAIN UpperToLower THEN UpperToLower[s[i]] ELSE s[i]]

\* str.strip()
Strip(s) ==
    LET keep == {i \in 1..Len(s) : s[i] \notin Whitespace}
    IN  IF keep = {} THEN <<>>
        ELSE LET lo == CHOOSE i \in keep : \A j \in keep : i <= j
                 hi == CHOOSE i \in keep : \A j \in keep : j <= i
             IN  SubSeq(s, lo, hi)

\* sub in s
Contains(s, sub) ==
    \E i \in 0..(Len(s) - Len(sub)) : SubSeq(s, i + 1, i + Len(sub)) = sub

\* s[:n] for n >= 0
Take(s, n) == SubSeq(s, 1, Min(n, Len(s)))

\* s[-n:] ; Python reads -0 as 0, so s[-0:] is the whole of s, and a negative n
\* (s[k:] with k = -n > 0) drops the first k elements
LastSlice(s, n) ==
    IF n > 0 THEN SubSeq(s, Max(1, Len(s) - n + 1), Len(s))
    ELSE SubSeq(s, Min(Len(s), -n) + 1, Len(s))

Digits == <<"0","1","2","3","4","5","6","7","8","9">>

\* str(n) for an int n >= 0
RECURSIVE IntToStr(_)
IntToStr(n) == IF n < 10 THEN <<Digits[n + 1]>> ELSE IntToStr(n \div 10) \o <<Digits[(n % 10) + 1]>>

\* sep.join(parts)
RECURSIVE Join(_, _)
Join(sep, parts) ==
    IF parts = <<>> THEN <<>>
    ELSE IF Len(parts) = 1 THEN parts[1]
    ELSE parts[1] \o sep \o Join(sep, Tail(parts))

\* tagged Python values
PyStr(s) == [t |-> "str", v |-> s]

PyInt(n) == [t |-> "int", v |-> n]

PyNone == [t |-> "none", v |-> 0]

PyDict(f) == [t |-> "dict", v |-> f]

PyList(s) == [t |-> "list", v |-> s]

\* bool(x)
Truthy(x) ==
    CASE x.t = "none" -> FALSE
      [] x.t = "str" -> Len(x.v) > 0
      [] x.t = "int" -> x.v # 0
      [] x.t = "list" -> Len(x.v) > 0
      [] x.t = "dict" -> DOMAIN x.v # {}
      [] OTHER -> TRUE

\* a or b
PyOr(a, b) == IF Truthy(a) THEN a ELSE b

\* d.get(k) on a dict payload
Get(d, k) == IF k \in DOMAIN d THEN d[k] ELSE PyNone

\* f"{x}" for a str or an int
Format(x) == IF x.t = "int" THEN IntToStr(x.v) ELSE x.v

-----------------------------------------------------------------------------
(* preprocess.py *)

USER_NAME == <<"A","r","u","n","a","v">>

MinTextLen == 5

TypeBusiness == <<"b","u","s","i","n","e","s","s">>
TypeInvestment == <<"i","n","v","e","s","t","m","e","n","t">>
TypeInterest == <<"i","n","t","e","r","e","s","t">>
TypeHabit == <<"h","a","b","i","t">>
TypePersonalTrait == <<"p","e","r","s","o","n","a","l","_","t","r","a","i","t">>
TypePreference == <<"p","r","e","f","e","r","e","n","c","e">>
TypeRelationship == <<"r","e","l","a","t","i","o","n","s","h","i","p">>
TypeHumor == <<"h","u","m","o","r">>
TypeGeneral == <<"g","e","n","e","r","a","l">>

\* the keyword lists of _classify_message, in the order the code tests them
Keywords ==
    << [type |-> TypeBusiness, words |-> {
          <<"b","u","s","i","n","e","s","s">>, <<"s","t","a","r","t","u","p">>,
          <<"c","o","m","p","a","n","y">>, <<"m","e","e","t","i","n","g">>,
          <<"c","l","i","e","n","t">>, <<"r","e","v","e","n","u","e">>,
          <<"p","i","t","c","h">>, <<"i","n","v","e","s","t","o","r">>}],
       [type |-> TypeInvestment, words |-> {
          <<"i","n","v","e","s","t">>, <<"s","t","o","c","k">>, <<"c","r","y","p","t","o">>,
          <<"t","r","a","d","i","n","g">>, <<"p","o","r","t","f","o","l","i","o">>,
          <<"b","i","t","c","o","i","n">>, <<"e","t","h">>}],
       [type |-> TypeInterest, words |-> {
          <<"l","o","v","e">>, <<"e","n","j","o","y">>, <<"f","a","v","o","r","i","t","e">>,
          <<"l","i","k","e">>, <<"i","n","t","e","r","e","s","t","e","d">>,
          <<"p","a","s","s","i","o","n">>, <<"h","o","b","b","y">>}],
       [type |-> TypeHabit, words |-> {
          <<"e","v","e","r","y"," ","d","a","y">>, <<"a","l","w","a","y","s">>,
          <<"u","s","u","a","l","l","y">>, <<"r","o","u","t","i","n","e">>,
          <<"h","a","b","i","t">>, <<"m","o","r","n","i","n","g">>,
          <<"e","v","e","n","i","n","g">>}],
       [type |-> TypePersonalTrait, words |-> {
          <<"i"," ","a","m">>, <<"i","'","m">>, <<"i"," ","f","e","e","l">>,
          <<"i"," ","t","h","i","n","k">>, <<"i"," ","b","e","l","i","e","v","e">>,
          <<"m","y"," ","o","p","i","n","i","o","n">>}],
       [type |-> TypePreference, words |-> {
          <<"p","r","e","f","e","r">>, <<"r","a","t","h","e","r">>,
          <<"b","e","t","t","e","r"," ","t","h","a","n">>,
          <<"d","o","n","t"," ","l","i","k","e">>,
          <<"d","o","n","'","t"," ","l","i","k","e">>, <<"h","a","t","e">>}],
       [type |-> TypeRelationship, words |-> {
          <<"f","r","i","e","n","d">>, <<"f","a","m","i","l","y">>, <<"m","o","m">>,
          <<"d","a","d">>, <<"b","r","o","t","h","e","r">>, <<"s","i","s","t","e","r">>,
          <<"r","e","l","a","t","i","o","n","s","h","i","p">>}],
       [type |-> TypeHumor, words |-> {
          <<"h","a","h","a">>, <<"l","o","l">>, <<"l","m","a","o">>, <<"U+1F602">>,
          <<"U+1F923">>, <<"f","u","n","n","y">>, <<"j","o","k","e">>}] >>

\* a plausible slip: the last matching list wins
ClassifyMessageLastMatch(text) ==
    LET text_lower == Lower(text)
        hits == {k \in 1..Len(Keywords) : \E w \in Keywords[k].words : Contains(text_lower, w)}
    IN  IF hits = {} THEN TypeGeneral
        ELSE Keywords[CHOOSE k \in hits : \A j \in hits : k >= j].type

\* _classify_message(text): the first list one of whose words occurs in text.lower()
ClassifyMessage(text) ==
    LET text_lower == Lower(text)
        hits == {k \in 1..Len(Keywords) : \E w \in Keywords[k].words : Contains(text_lower, w)}
    IN  IF hits = {} THEN TypeGeneral
        ELSE Keywords[CHOOSE k \in hits : \A j \in hits : k <= j].type

\* the three alias chains of filter_user_messages / extract_facts
SenderOf(msg) ==
    PyOr(PyOr(PyOr(Get(msg.v, "from"), Get(msg.v, "sender")), Get(msg.v, "author")), PyStr(<<>>))

TextOf(msg) ==
    PyOr(PyOr(PyOr(Get(msg.v, "text"), Get(msg.v, "message")), Get(msg.v, "body")), PyStr(<<>>))

TimestampOf(msg) ==
    PyOr(PyOr(PyOr(PyOr(Get(msg.v, "timestamp"), Get(msg.v, "datetime")), Get(msg.v, "date")),
              Get(msg.v, "time")), PyStr(<<>>))

\* msg.get('id') or i  (i is the 0-based position in the list handed to extract_facts)
MsgIdOf(msg, i) == PyOr(Get(msg.v, "id"), PyInt(i))

\* the message makes filter_user_messages raise: msg.get on a non-dict, sender.lower() on a non-str
FilterRaisesOn(msg) == msg.t # "dict" \/ SenderOf(msg).t # "str"

\* the message makes extract_facts raise: msg.get on a non-dict, text.strip() on a non-str
ExtractRaisesOn(msg) == msg.t # "dict" \/ TextOf(msg).t # "str"

\* a plausible slip: the length is taken before trimming
SkipMessageUntrimmed(msg) == ~Truthy(TextOf(msg)) \/ Len(TextOf(msg).v) < MinTextLen

\* the `continue` test of extract_facts
SkipMessage(msg) == ~Truthy(TextOf(msg)) \/ Len(Strip(TextOf(msg).v)) < MinTextLen

\* the fact dict extract_facts builds for the message at position i
FactOf(msg, i) ==
    [type |-> ClassifyMessage(TextOf(msg).v),
     content |-> Strip(TextOf(msg).v),
     source_reference |-> <<"m","s","g","_">> \o Format(MsgIdOf(msg, i)),
     timestamp |-> TimestampOf(msg).v,
     raw_text |-> TextOf(msg).v]

RECURSIVE ExtractFrom(_, _)
ExtractFrom(messages, i) ==
    IF i >= Len(messages) THEN <<>>
    ELSE IF SkipMessage(messages[i + 1]) THEN ExtractFrom(messages, i + 1)
    ELSE <<FactOf(messages[i + 1], i)>> \o ExtractFrom(messages, i + 1)

\* extract_facts(messages): the loop stops at the first message it raises on
extract_facts(messages) ==
    IF \E i \in 1..Len(messages) : ExtractRaisesOn(messages[i])
    THEN [ok |-> FALSE, error |-> "AttributeError", value |-> <<>>]
    ELSE [ok |-> TRUE, error |-> "", value |-> ExtractFrom(messages, 0)]


\* filter_user_messages(): order-preserving, case-insensitive substring test on the sender
RECURSIVE FilterFrom(_)
FilterFrom(messages) ==
    IF messages = <<>> THEN <<>>
    ELSE IF Contains(Lower(SenderOf(Head(messages)).v), Lower(USER_NAME))
         THEN <<Head(messages)>> \o FilterFrom(Tail(messages))
         ELSE FilterFrom(Tail(messages))

filter_user_messages(messages) ==
    IF \E i \in 1..Len(messages) : FilterRaisesOn(messages[i])
    THEN [ok |-> FALSE, error |-> "AttributeError", value |-> <<>>]
    ELSE [ok |-> TRUE, error |-> "", value |-> FilterFrom(messages)]

\* what `for msg in self.messages` iterates over: the items of a list, the
\* characters of a str, the keys of a dict
ItemsOf(x) ==
    CASE x.t = "list" -> x.v
      [] x.t = "str" -> [i \in 1..Len(x.v) |-> PyStr(<<x.v[i]>>)]
      [] OTHER -> <<>>

\* load_json(): data is the parsed file; len(self.messages) in the final print
\* raises TypeError on a value without a length
load_json(data) ==
    LET found == IF data.t = "list" THEN data
                 ELSE IF data.t = "dict" /\ "messages" \in DOMAIN data.v THEN data.v["messages"]
                 ELSE PyNone
    IN  IF data.t = "list" \/ (data.t = "dict" /\ "messages" \in DOMAIN data.v)
        THEN IF found.t \in {"list", "str", "dict"}
             THEN [ok |-> TRUE, error |-> "", value |-> found]
             ELSE [ok |-> FALSE, error |-> "TypeError", value |-> PyNone]
        ELSE [ok |-> FALSE, error |-> "ValueError", value |-> PyNone]

\* a plausible slip: every row of one run gets the same next id
RowsForSameId(new, last) ==
    [i \in 1..Len(new) |->
        [id |-> last + 1, type |-> new[i].type, content |-> new[i].content,
         source_reference |-> new[i].source_reference, timestamp |-> new[i].timestamp,
         raw_text |-> new[i].raw_text]]

\* the rows save_to_db inserts: AUTOINCREMENT gives each the next id after the
\* largest one ever used (the column created_at is read by no code and is left out)
RowsFor(new, last) ==
    [i \in 1..Len(new) |->
        [id |-> last + i, type |-> new[i].type, content |-> new[i].content,
         source_reference |-> new[i].source_reference, timestamp |-> new[i].timestamp,
         raw_text |-> new[i].raw_text]]

\* a plausible slip: a row whose content is stored already is not inserted again
save_to_db_deduplicating(new) ==
    LET fresh == SelectSeq(new, LAMBDA f : \A j \in 1..Len(facts) : facts[j].content # f.content)
    IN  /\ tableExists' = TRUE
        /\ facts' = facts \o [i \in 1..Len(fresh) |->
                                 [id |-> autoinc + i, type |-> fresh[i].type,
                                  content |-> fresh[i].content,
                                  source_reference |-> fresh[i].source_reference,
                                  timestamp |-> fresh[i].timestamp, raw_text |-> fresh[i].raw_text]]
        /\ autoinc' = autoinc + Len(fresh)

\* save_to_db(facts): CREATE TABLE IF NOT EXISTS, one INSERT per fact, commit
save_to_db(new) ==
    /\ tableExists' = TRUE
    /\ facts' = facts \o RowsFor(new, autoinc)
    /\ autoinc' = autoinc + Len(new)

\* process() up to save_to_db: load_json, filter_user_messages, extract_facts
Pipeline(data) ==
    LET loaded == load_json(data)
    IN  IF ~loaded.ok THEN loaded
        ELSE LET mine == IF loaded.value.t = "dict" /\ DOMAIN loaded.value.v # {}
                         THEN [ok |-> FALSE, error |-> "AttributeError", value |-> <<>>]
                         ELSE filter_user_messages(ItemsOf(loaded.value))
             IN  IF ~mine.ok THEN mine ELSE extract_facts(mine.value)

-----------------------------------------------------------------------------
(* memory_store.py *)

DefaultBatchSize == 100

TOP_K_RESULTS == 10

\* embed_function([text])[0]: the embedding backend is an external collaborator;
\* a vector is known by the backend that made it and the text it was made from
Embed(provider, text) == [provider |-> provider, text |-> text]

\* the distance Chroma computes between two vectors (any fixed function of the
\* two vectors serves; this one separates texts by length)
Distance(a, b) ==
    IF Len(a.text) >= Len(b.text) THEN Len(a.text) - Len(b.text) ELSE Len(b.text) - Len(a.text)

\* load_facts_from_db(): SELECT id, type, content, source_reference, timestamp FROM facts
load_facts_from_db ==
    [i \in 1..Len(facts) |->
        [id |-> facts[i].id, type |-> facts[i].type, content |-> facts[i].content,
         source_reference |-> facts[i].source_reference, timestamp |-> facts[i].timestamp]]

\* what the SELECT raises, if anything
DbError ==
    IF proc = "closed" THEN "ProgrammingError"
    ELSE IF ~tableExists THEN "OperationalError"
    ELSE ""

\* a plausible slip: the entry is numbered from 0
EntryOfFromZero(fact, provider) ==
    [id |-> IntToStr(fact.id - 1),
     document |-> fact.content,
     embedding |-> Embed(provider, fact.content),
     metadata |-> [type |-> fact.type, source_reference |-> fact.source_reference,
                   timestamp |-> fact.timestamp]]

\* the entry build_vector_index adds for one fact
EntryOf(fact, provider) ==
    [id |-> IntToStr(fact.id),
     document |-> fact.content,
     embedding |-> Embed(provider, fact.content),
     metadata |-> [type |-> fact.type, source_reference |-> fact.source_reference,
                   timestamp |-> fact.timestamp]]

\* range(0, n, batch_size) has this many elements
NumBatches(n, batch_size) == (n + batch_size - 1) \div batch_size

\* facts[i:i + batch_size] for the b-th batch (b from 0)
Batch(loaded, b, batch_size) ==
    SubSeq(loaded, b * batch_size + 1, Min(Len(loaded), (b + 1) * batch_size))

\* a plausible slip: the documents of a batch are added before they are
\* embedded, so that batch b is in the index as well
EntriesUpToThrough(loaded, b, batch_size, provider) ==
    [i \in 1..Min(Len(loaded), (b + 1) * batch_size) |-> EntryOf(loaded[i], provider)]

\* the entries of batches 0..b-1
RECURSIVE EntriesUpTo(_, _, _, _)
EntriesUpTo(loaded, b, batch_size, provider) ==
    IF b = 0 THEN <<>>
    ELSE EntriesUpTo(loaded, b - 1, batch_size, provider) \o
         [i \in 1..Len(Batch(loaded, b - 1, batch_size)) |->
             EntryOf(Batch(loaded, b - 1, batch_size)[i], provider)]

\* the calls of batches 0..b-1: one embed_function call and one collection.add each
RECURSIVE BatchCalls(_)
BatchCalls(b) == IF b = 0 THEN <<>> ELSE BatchCalls(b - 1) \o <<"embed", "add">>

\* a plausible slip: the answer is trimmed before the test
RefusedStripped(answer) == Lower(Strip(answer)) # <<"y","e","s">>

\* the confirmation test of build_vector_index: response.lower() != 'yes'
Refused(answer) == Lower(answer) # <<"y","e","s">>

\* a plausible slip: the collection is not deleted before the batches are added
KeptMerged(old) == old

\* what delete_collection + get_or_create_collection leave of the old entries
KeptOnRebuild(old) == <<>>

\* a plausible slip: the documents are embedded before the emptiness test
EmptyStoreBuildEmbedding == [index |-> index, outcome |-> "ok", trace |-> <<"embed">>]

\* if len(facts) == 0: print a warning and return
EmptyStoreBuild == [index |-> index, outcome |-> "ok", trace |-> <<>>]

\* build_vector_index(batch_size), with what input() gives at the prompt (answer:
\* the line typed, or None when stdin is closed) and the batch whose embedding call fails
\* (failAt; -1 for none).  Gives the index left behind, how the call ended and
\* the calls it made.
BuildResult(batch_size, answer, failAt) ==
    LET loaded == load_facts_from_db
        nb == NumBatches(Len(loaded), batch_size)
        asked == Len(index) > 0
        before == IF asked THEN <<"input", "delete_collection">> ELSE <<>>
        start == IF asked THEN KeptOnRebuild(index) ELSE index
    IN  IF DbError # "" THEN [index |-> index, outcome |-> DbError, trace |-> <<>>]
        ELSE IF Len(loaded) = 0 THEN EmptyStoreBuild
        ELSE IF asked /\ answer.t = "none"
             THEN [index |-> index, outcome |-> "EOFError", trace |-> <<"input">>]
        ELSE IF asked /\ Refused(answer.v)
             THEN [index |-> index, outcome |-> "ok", trace |-> <<"input">>]
        ELSE IF failAt \in 0..(nb - 1)
             THEN [index |-> start \o EntriesUpTo(loaded, failAt, batch_size, config.emb),
                   outcome |-> "EmbeddingError",
                   trace |-> before \o BatchCalls(failAt) \o <<"embed">>]
        ELSE [index |-> start \o EntriesUpTo(loaded, nb, batch_size, config.emb),
              outcome |-> "ok",
              trace |-> before \o BatchCalls(nb)]

\* a plausible slip: the first k entries are returned as they were inserted
RECURSIVE NearestInserted(_, _, _)
NearestInserted(qv, entries, k) ==
    IF k = 0 \/ entries = <<>> THEN <<>>
    ELSE <<Head(entries)>> \o NearestInserted(qv, Tail(entries), k - 1)

\* collection.query(n_results = k): the k nearest entries, nearest first, entries
\* at the same distance in insertion order
RECURSIVE Nearest(_, _, _)
Nearest(qv, entries, k) ==
    IF k = 0 \/ entries = <<>> THEN <<>>
    ELSE LET best == CHOOSE i \in 1..Len(entries) :
                        \A j \in 1..Len(entries) :
                            \/ Distance(qv, entries[i].embedding) < Distance(qv, entries[j].embedding)
                            \/ /\ Distance(qv, entries[i].embedding) = Distance(qv, entries[j].embedding)
                               /\ i <= j
             rest == [j \in 1..(Len(entries) - 1) |-> IF j < best THEN entries[j] ELSE entries[j + 1]]
         IN  <<entries[best]>> \o Nearest(qv, rest, k - 1)

\* the dict search() builds for one hit
HitOf(qv, entry) ==
    [content |-> entry.document, type |-> entry.metadata.type,
     source_reference |-> entry.metadata.source_reference,
     timestamp |-> entry.metadata.timestamp,
     distance |-> Distance(qv, entry.embedding)]

\* if top_k is None: top_k = config.TOP_K_RESULTS
EffectiveTopK(top_k) == IF top_k.t = "none" THEN TOP_K_RESULTS ELSE top_k.v

\* a plausible slip: an empty collection is reported as an error
SearchResultRaisingOnEmpty(query, top_k, fail) ==
    LET k == IF top_k.t = "none" THEN TOP_K_RESULTS ELSE top_k.v
        qv == Embed(config.emb, query)
        hits == Nearest(qv, index, k)
    IN  IF fail = "embed" THEN [outcome |-> "EmbeddingError", trace |-> <<"embed">>, value |-> <<>>]
        ELSE IF fail = "index" \/ index = <<>>
             THEN [outcome |-> "IndexError", trace |-> <<"embed", "collection.query">>, value |-> <<>>]
        ELSE IF k <= 0
             THEN [outcome |-> "TypeError", trace |-> <<"embed", "collection.query">>, value |-> <<>>]
        ELSE [outcome |-> "ok", trace |-> <<"embed", "collection.query">>,
              value |-> [i \in 1..Len(hits) |-> HitOf(qv, hits[i])]]

\* search(query, top_k); top_k is None or an int, handed to Chroma as n_results
\* unchecked: Chroma rejects an n_results that is not positive.  fail names the external
\* call that raises: "embed" (embed_function), "index" (collection.query), "" none
SearchResult(query, top_k, fail) ==
    LET k == EffectiveTopK(top_k)
        qv == Embed(config.emb, query)
        hits == Nearest(qv, index, k)
    IN  IF fail = "embed" THEN [outcome |-> "EmbeddingError", trace |-> <<"embed">>, value |-> <<>>]
        ELSE IF fail = "index"
             THEN [outcome |-> "IndexError", trace |-> <<"embed", "collection.query">>, value |-> <<>>]
        ELSE IF k <= 0
             THEN [outcome |-> "TypeError", trace |-> <<"embed", "collection.query">>, value |-> <<>>]
        ELSE [outcome |-> "ok", trace |-> <<"embed", "collection.query">>,
              value |-> [i \in 1..Len(hits) |-> HitOf(qv, hits[i])]]

-----------------------------------------------------------------------------
(* rag_engine.py *)

HistoryWindow == 5

PreviewLen == 500

DefaultLoadLimit == 20

Placeholder ==
    <<"N","o"," ","r","e","l","e","v","a","n","t"," ","m","e","m","o","r","i","e","s"," ",
      "f","o","u","n","d",".">>

\* a plausible slip: no placeholder, the join of no parts
BuildContextJoinOnly(found) ==
    Join(<<"\n">>,
         [i \in 1..Len(found) |-> <<"[">> \o found[i].type \o <<"]", " ">> \o found[i].content])

\* _build_context(facts)
BuildContext(found) ==
    IF found = <<>> THEN Placeholder
    ELSE Join(<<"\n">>,
              [i \in 1..Len(found) |-> <<"[">> \o found[i].type \o <<"]", " ">> \o found[i].content])

\* _build_system_prompt(): literal text around USER_NAME (each literal run of the
\* f-string is kept as one element)
BuildSystemPrompt ==
    <<"You are Jarvis, an AI assistant with complete knowledge of ">> \o USER_NAME \o
    <<"'s life, personality, and preferences ... You are ">> \o USER_NAME \o
    <<"'s personal AI assistant with deep knowledge of their life.">>

\* the f-string current_message of both generators
CurrentMessage(query, context) ==
    <<"Relevant memories from ">> \o USER_NAME \o <<"'s WhatsApp history:\n\n">> \o context \o
    <<"\n\n---\n\nQuery: ">> \o query \o
    <<"\n\nBased on the memories above and your knowledge of ">> \o USER_NAME \o
    <<", provide a helpful and personalized response.">>

\* turn["query"] / turn["response"] raise on an entry that is no dict or lacks the key
TurnReadable(turn) == turn.t = "dict" /\ "query" \in DOMAIN turn.v /\ "response" \in DOMAIN turn.v

\* the two messages a history turn contributes
RECURSIVE TurnMessages(_)
TurnMessages(window) ==
    IF window = <<>> THEN <<>>
    ELSE << [role |-> "user", content |-> Head(window).v["query"]],
            [role |-> "assistant", content |-> Head(window).v["response"]] >>
         \o TurnMessages(Tail(window))

\* a plausible slip: the whole history is sent
BuildMessagesWhole(provider, query, context, conversation_history) ==
    (IF provider = "openai"
     THEN << [role |-> "system", content |-> PyStr(BuildSystemPrompt)] >>
     ELSE <<>>)
    \o TurnMessages(conversation_history)
    \o << [role |-> "user", content |-> PyStr(CurrentMessage(query, context))] >>

\* the messages list _generate_with_anthropic / _generate_with_openai hand to the API
BuildMessages(provider, query, context, conversation_history) ==
    (IF provider = "openai"
     THEN << [role |-> "system", content |-> PyStr(BuildSystemPrompt)] >>
     ELSE <<>>)
    \o TurnMessages(LastSlice(conversation_history, HistoryWindow))
    \o << [role |-> "user", content |-> PyStr(CurrentMessage(query, context))] >>

\* datetime.now().isoformat() for the n-th reading of the clock
Isoformat(n) == <<"T">> \o IntToStr(n)

\* a plausible slip: the context is stored whole
TurnOfUntruncated(n, user_query, response_text, found, context) ==
    PyDict([timestamp |-> PyStr(Isoformat(n)),
            query |-> PyStr(user_query),
            response |-> PyStr(response_text),
            retrieved_facts_count |-> PyInt(Len(found)),
            context_preview |-> PyStr(context)])

\* the conversation_turn dict of query()
TurnOf(n, user_query, response_text, found, context) ==
    PyDict([timestamp |-> PyStr(Isoformat(n)),
            query |-> PyStr(user_query),
            response |-> PyStr(response_text),
            retrieved_facts_count |-> PyInt(Len(found)),
            context_preview |-> PyStr(Take(context, PreviewLen))])

\* json.dumps(turn) + '\n': a line of the log is known by the JSON value it
\* encodes; a line that is not JSON text is [t |-> "text", v |-> its characters]
JsonLine(value) == [t |-> "json", v |-> value]

\* a plausible slip: a failed call is made again, and then answered
GenerateResponseRetrying(fail, response_text) ==
    [ok |-> TRUE,
     calls |-> IF fail = "generate" THEN <<"generate", "generate">> ELSE <<"generate">>,
     text |-> response_text]

\* a plausible slip: the backend's exception is caught inside the call and an
\* empty response is handed back
GenerateResponseSwallowing(fail, response_text) ==
    [ok |-> TRUE, calls |-> <<"generate">>,
     text |-> IF fail = "generate" THEN <<>> ELSE response_text]

\* self.generate_response(...) in query(): one call of the backend, which
\* returns response_text or raises
GenerateResponse(fail, response_text) ==
    [ok |-> fail # "generate", calls |-> <<"generate">>, text |-> response_text]

\* a plausible slip: the facts recorded in the turn come from a second search,
\* made after the response was generated
StepsOfQuerySearchingAgain(searching, generating) ==
    searching \o generating \o searching \o <<"history.append", "log.append", "return">>

\* the calls of a query that succeeds, in order: the search, the generation,
\* the append to the history, _save_conversation_turn, the return
StepsOfQuery(searching, generating) ==
    searching \o generating \o <<"history.append", "log.append", "return">>

\* a plausible slip: the log file is opened with 'w', so the line replaces the file
SavedLogOverwriting(lines, turn) == <<JsonLine(turn)>>

\* _save_conversation_turn(turn): the file opened with 'a', one line written
SavedLog(lines, turn) == Append(lines, JsonLine(turn))

\* query(user_query, top_k).  fail names the external call that raises ("embed",
\* "index", "generate", "log", "" for none); response_text is what the backend
\* returns.  Gives the new history, log and clock, how the call ended, the calls
\* it made in order, the messages it sent and the dict it returned.
QueryResult(user_query, top_k, fail, response_text) ==
    LET found == SearchResult(user_query, top_k, fail)
        context == BuildContext(found.value)
        window == LastSlice(history, HistoryWindow)
        messages == BuildMessages(config.llm, user_query, context, history)
        reply == GenerateResponse(fail, response_text)
        turn == TurnOf(now + 1, user_query, reply.text, found.value, context)
        same == [outcome |-> "ok", trace |-> <<>>, history |-> history, log |-> log,
                 logExists |-> logExists, now |-> now, sent |-> <<>>, ret |-> PyNone]
    IN  IF found.outcome # "ok"
        THEN [same EXCEPT !.outcome = found.outcome, !.trace = found.trace]
        ELSE IF \E i \in 1..Len(window) : ~TurnReadable(window[i])
        THEN LET bad == CHOOSE i \in 1..Len(window) :
                            /\ ~TurnReadable(window[i])
                            /\ \A j \in 1..(i - 1) : TurnReadable(window[j])
             IN  [same EXCEPT !.outcome = IF window[bad].t = "dict" THEN "KeyError"
                                          ELSE "TypeError",
                              !.trace = found.trace]
        ELSE IF ~reply.ok
        THEN [same EXCEPT !.outcome = "GenerationError", !.trace = found.trace \o reply.calls,
                          !.sent = messages]
        ELSE IF fail = "log"
        THEN [same EXCEPT !.outcome = "OSError",
                          !.trace = found.trace \o reply.calls \o <<"history.append", "open">>,
                          !.sent = messages, !.now = now + 1,
                          !.history = Append(history, turn)]
        ELSE [outcome |-> "ok",
              trace |-> StepsOfQuery(found.trace, reply.calls),
              sent |-> messages, now |-> now + 1,
              history |-> Append(history, turn),
              log |-> SavedLog(log, turn), logExists |-> TRUE,
              ret |-> [response |-> reply.text, retrieved_facts |-> found.value,
                       context |-> context,
                       metadata |-> [facts_retrieved |-> Len(found.value),
                                     timestamp |-> Isoformat(now + 1)]]]

\* the turns load_conversation_history(limit) appends: json.loads of each of the
\* last lines, a line that is not JSON being skipped
RECURSIVE ParsedLines(_)
ParsedLines(lines) ==
    IF lines = <<>> THEN <<>>
    ELSE IF Head(lines).t = "json" THEN <<Head(lines).v>> \o ParsedLines(Tail(lines))
    ELSE ParsedLines(Tail(lines))

LoadedTurns(limit) == IF ~logExists THEN <<>> ELSE ParsedLines(LastSlice(log, limit))

-----------------------------------------------------------------------------
(* Bounds and inputs *)

MaxFacts == 3          \* rows the store may hold

MaxTurns == 2          \* clock readings (generated turns) in a conversation run

PriorTurns == 5        \* turns earlier runs left in the log before a conversation run

MaxStoreTurns == 1     \* the same, where the store and the index are under study

MaxLoads == 1          \* load_conversation_history calls per engine

MaxRows == 4           \* rows the store may hold in a run of ingestions

MaxWords == 2          \* words of a text handed to _classify_message

MaxExtractLen == 2     \* messages in an extraction input

LongLen == 260         \* characters of a long message

Arunav == <<"A","r","u","n","a","v">>
ArunavK == <<"a","r","u","n","a","v"," ","k">>
Bob == <<"B","o","b">>

TextCrypto == <<"I"," ","l","o","v","e"," ","t","r","a","d","i","n","g"," ","c","r","y","p","t","o">>
TextFunny == <<"h","a","h","a"," ","t","h","a","t","'","s"," ","f","u","n","n","y">>
TextOk == <<"o","k">>
TextHello == <<" ","h","e","l","l","o"," ">>
TextHelloThere == <<"h","e","l","l","o"," ","t","h","e","r","e">>
TextLong == [i \in 1..LongLen |-> "x"]

Msg(sender, text) == PyDict(("from" :> PyStr(sender)) @@ ("text" :> PyStr(text)))

\* scenario 1 of the specification, with a message of another author in between
ScenarioExport ==
    PyList(<< Msg(Arunav, TextCrypto), Msg(Bob, TextHelloThere), Msg(Arunav, TextFunny),
              Msg(Arunav, TextOk) >>)

SingleExport ==
    PyDict("messages" :> PyList(<< PyDict(("sender" :> PyStr(ArunavK)) @@ ("body" :> PyStr(TextHello))
                                          @@ ("id" :> PyInt(12)) @@ ("date" :> PyStr(<<"t","1">>))) >>))

LongExport ==
    PyList(<< Msg(Arunav, TextCrypto), Msg(Arunav, TextLong), Msg(Arunav, TextLong) >>)

EmptyExport == PyList(<<>>)

\* messages for the extraction inputs: well-formed ones around the length
\* threshold, alias fields, absent fields, and two malformed ones
ExtractMessages ==
    { Msg(Arunav, TextCrypto),
      Msg(Bob, TextFunny),
      Msg(Arunav, TextOk),
      Msg(Arunav, <<" "," ","h","i"," "," ">>),
      Msg(ArunavK, TextHello),
      Msg(Arunav, <<"h","e","l","l">>),
      Msg(Arunav, <<" "," "," "," "," ">>),
      PyDict(("from" :> PyStr(Arunav)) @@ ("id" :> PyInt(7))),
      PyDict(("author" :> PyStr(Arunav)) @@ ("text" :> PyStr(<<>>))
             @@ ("message" :> PyStr(TextHelloThere)) @@ ("time" :> PyStr(<<"t","1">>))),
      PyDict(("from" :> PyStr(Arunav)) @@ ("text" :> PyInt(12345))),
      PyStr(<<"j","u","n","k">>) }

RECURSIVE SeqsUpTo(_, _)
SeqsUpTo(S, n) ==
    IF n = 0 THEN {<<>>}
    ELSE SeqsUpTo(S, n - 1) \cup {Append(q, x) : q \in SeqsUpTo(S, n - 1), x \in S}

BadExport == PyInt(7)

StoreExports == {ScenarioExport, SingleExport, EmptyExport, BadExport}

\* what input() gives: a typed line, or None for a closed stdin
Answers ==
    {PyStr(<<"y","e","s">>), PyStr(<<"Y","e","S">>), PyStr(<<"n","o">>),
     PyStr(<<" ","y","e","s">>), PyNone}

BatchSizes == {1, DefaultBatchSize}

QueryTexts ==
    {<<"h","i">>,
     <<"w","h","a","t"," ","d","o"," ","i"," ","t","r","a","d","e"," ","n","o","w">>}

Responses == {<<"o","k",".">>}

TopKs == {PyNone, PyInt(1)}

LoadLimits == {2, DefaultLoadLimit}

StoreConfigs == [llm : {"anthropic"}, emb : {"sentence-transformers"}]

EngineConfigs == [llm : {"anthropic", "openai"}, emb : {"sentence-transformers"}]

-----------------------------------------------------------------------------
(* Operations *)

NoArg == [none |-> TRUE]

\* WhatsAppPreprocessor.process(): the pipeline, then save_to_db unless a step raised;
\* cap bounds the rows of the store; arg keeps the export and the row count found
process(cap, data) ==
    LET got == Pipeline(data)
    IN  /\ lastOp' = "process"
        /\ trace' = <<>>
        /\ sent' = <<>>
        /\ arg' = [data |-> data, before |-> Len(facts)]
        /\ IF got.ok
           THEN /\ Len(facts) + Len(got.value) <= cap
                /\ save_to_db(got.value)
                /\ outcome' = "ok"
                /\ ret' = PyInt(Len(got.value))
           ELSE /\ UNCHANGED storeVars
                /\ outcome' = got.error
                /\ ret' = PyNone
        /\ UNCHANGED <<index, logVars, engineVars, cleared, extractVars>>

\* MemoryStore.build_vector_index(batch_size); arg keeps the line the prompt
\* gave, when the prompt was reached and answered
build_vector_index(batch_size, answer, failAt) ==
    LET built == BuildResult(batch_size, answer, failAt)
    IN  /\ lastOp' = "build"
        /\ index' = built.index
        /\ outcome' = built.outcome
        /\ trace' = built.trace
        /\ sent' = <<>>
        /\ ret' = PyNone
        /\ arg' = [answer |-> IF built.trace # <<>> /\ Head(built.trace) = "input"
                              THEN answer ELSE PyNone,
                   batch_size |-> IF Len(built.trace) > 1 THEN batch_size ELSE 0]
        /\ UNCHANGED <<storeVars, logVars, engineVars, cleared, extractVars>>

\* MemoryStore.search(query, top_k)
search(query, top_k, fail) ==
    LET found == SearchResult(query, top_k, fail)
    IN  /\ lastOp' = "search"
        /\ outcome' = found.outcome
        /\ trace' = found.trace
        /\ sent' = <<>>
        /\ ret' = PyList(found.value)
        /\ arg' = [query |-> query, top_k |-> top_k, fail |-> fail]
        /\ UNCHANGED <<storeVars, index, logVars, engineVars, cleared, extractVars>>

\* MemoryStore.get_stats()
get_stats ==
    /\ lastOp' = "stats"
    /\ outcome' = IF DbError = "" THEN "ok" ELSE DbError
    /\ trace' = <<>>
    /\ sent' = <<>>
    /\ arg' = NoArg
    /\ ret' = IF DbError # "" THEN PyNone
              ELSE PyDict([total_facts |-> PyInt(Len(facts)),
                           vector_indexed |-> PyInt(Len(index))])
    /\ UNCHANGED <<storeVars, index, logVars, engineVars, cleared, extractVars>>

\* RAGEngine.query(user_query, top_k); cap bounds the clock readings of a run
query(cap, user_query, top_k, fail, response_text) ==
    LET got == QueryResult(user_query, top_k, fail, response_text)
    IN  /\ now < cap
        /\ lastOp' = "query"
        /\ history' = got.history
        /\ log' = got.log
        /\ logExists' = got.logExists
        /\ now' = got.now
        /\ outcome' = got.outcome
        /\ trace' = got.trace
        /\ sent' = got.sent
        /\ ret' = got.ret
        /\ arg' = [user_query |-> user_query, top_k |-> top_k, fail |-> fail,
                   reply |-> IF got.now = now THEN PyNone ELSE PyStr(response_text)]
        /\ UNCHANGED <<storeVars, index, proc, config, loads, cleared, extractVars>>

\* RAGEngine.load_conversation_history(limit)
load_conversation_history(limit) ==
    /\ loads < MaxLoads
    /\ loads' = loads + 1
    /\ lastOp' = "load"
    /\ history' = history \o LoadedTurns(limit)
    /\ outcome' = "ok"
    /\ trace' = <<>>
    /\ sent' = <<>>
    /\ ret' = PyNone
    /\ arg' = [limit |-> limit]
    /\ UNCHANGED <<storeVars, index, logVars, proc, config, now, cleared, extractVars>>

\* a plausible slip: clearing the history also empties the log
clear_truncating_log ==
    /\ lastOp' = "clear"
    /\ history' = <<>>
    /\ log' = <<>>
    /\ cleared' = [at |-> Len(log), restarted |-> FALSE]
    /\ outcome' = "ok"
    /\ trace' = <<>>
    /\ sent' = <<>>
    /\ ret' = PyNone
    /\ arg' = NoArg
    /\ UNCHANGED <<storeVars, index, logExists, proc, config, loads, now, extractVars>>

\* RAGEngine.clear_conversation_history()
clear_conversation_history ==
    /\ lastOp' = "clear"
    /\ history' = <<>>
    /\ cleared' = [at |-> Len(log), restarted |-> FALSE]
    /\ outcome' = "ok"
    /\ trace' = <<>>
    /\ sent' = <<>>
    /\ ret' = PyNone
    /\ arg' = NoArg
    /\ UNCHANGED <<storeVars, index, logVars, proc, config, loads, now, extractVars>>

\* RAGEngine.close(): MemoryStore.close() closes the SQLite connection and nothing else
close ==
    /\ proc = "ready"
    /\ proc' = "closed"
    /\ lastOp' = "close"
    /\ outcome' = "ok"
    /\ trace' = <<>>
    /\ sent' = <<>>
    /\ ret' = PyNone
    /\ arg' = NoArg
    /\ UNCHANGED <<storeVars, index, logVars, config, history, loads, now, cleared, extractVars>>

\* the process ends and a new one constructs RAGEngine(): __init__ opens the
\* store and starts with conversation_history = []
restart(cfg) ==
    /\ proc' = "ready"
    /\ config' = cfg
    /\ history' = <<>>
    /\ loads' = 0
    /\ cleared' = [cleared EXCEPT !.restarted = (cleared.at >= 0)]
    /\ lastOp' = "start"
    /\ outcome' = "ok"
    /\ trace' = <<>>
    /\ sent' = <<>>
    /\ ret' = PyNone
    /\ arg' = NoArg
    /\ UNCHANGED <<storeVars, index, logVars, now, extractVars>>

-----------------------------------------------------------------------------
(* The store and the index: ingestion, builds, searches and a query *)

InitCommon ==
    /\ proc = "ready"
    /\ history = <<>>
    /\ loads = 0
    /\ now = 0
    /\ log = <<>>
    /\ logExists = FALSE
    /\ lastOp = "start"
    /\ outcome = "ok"
    /\ trace = <<>>
    /\ sent = <<>>
    /\ ret = PyNone
    /\ arg = NoArg
    /\ cleared = [at |-> -1, restarted |-> FALSE]
    /\ exOutput = PyNone

Init ==
    /\ InitCommon
    /\ config \in StoreConfigs
    /\ tableExists = FALSE
    /\ facts = <<>>
    /\ autoinc = 0
    /\ index = <<>>
    /\ exInput = <<>>

Ingest == \E data \in StoreExports : process(MaxFacts, data)

Build ==
    \E batch_size \in BatchSizes, answer \in Answers, failAt \in -1..(MaxFacts - 1) :
        /\ failAt < NumBatches(Len(facts), batch_size)
        /\ build_vector_index(batch_size, answer, failAt)

Search == \E q \in QueryTexts, k \in TopKs, fail \in {"", "embed", "index"} : search(q, k, fail)

Stats == get_stats

StoreQuery ==
    \E q \in QueryTexts, fail \in {"", "generate"}, r \in Responses :
        query(MaxStoreTurns, q, PyNone, fail, r)

Close == close

Next == Ingest \/ Build \/ Search \/ Stats \/ StoreQuery \/ Close

Spec == Init /\ [][Next]_vars

-----------------------------------------------------------------------------
(* A conversation run: an engine over a store that was ingested and indexed *)

\* the log earlier runs left: PriorTurns turns, answered when the index was empty
PriorLog ==
    [i \in 1..PriorTurns |->
        JsonLine(TurnOf(i, IF i % 2 = 1 THEN <<"h","i">> ELSE <<"h","e","y">>,
                        <<"r">> \o IntToStr(i), <<>>, Placeholder))]

\* the two starting points of a run: nothing ingested and no log yet; or long
\* facts ingested and indexed after the turns of PriorLog were logged
EngineWorlds == {[export |-> EmptyExport, log |-> <<>>], [export |-> LongExport, log |-> PriorLog]}

EngineInit ==
    /\ proc = "ready"
    /\ config \in EngineConfigs
    /\ history = <<>>
    /\ loads = 0
    /\ now = PriorTurns
    /\ \E world \in EngineWorlds :
        LET data == world.export IN
          /\ log = world.log
          /\ logExists = (world.log # <<>>)
          /\ tableExists = TRUE
          /\ facts = RowsFor(Pipeline(data).value, 0)
          /\ autoinc = Len(Pipeline(data).value)
          /\ index = EntriesUpTo(RowsFor(Pipeline(data).value, 0), 1, DefaultBatchSize,
                                 "sentence-transformers")
    /\ lastOp = "start"
    /\ outcome = "ok"
    /\ trace = <<>>
    /\ sent = <<>>
    /\ ret = PyNone
    /\ arg = NoArg
    /\ cleared = [at |-> -1, restarted |-> FALSE]
    /\ exInput = <<>>
    /\ exOutput = PyNone

Query ==
    \E q \in QueryTexts, k \in {PyNone}, fail \in {"", "embed", "index", "generate", "log"},
       r \in Responses :
        query(PriorTurns + MaxTurns, q, k, fail, r)

Load == \E limit \in LoadLimits : load_conversation_history(limit)

Clear == clear_conversation_history

Restart == \E cfg \in EngineConfigs : restart(cfg)

EngineNext == Query \/ Load \/ Clear \/ Close \/ Restart

EngineSpec == EngineInit /\ [][EngineNext]_vars

-----------------------------------------------------------------------------
(* Extraction as a function of its input *)

ExtractInit ==
    /\ InitCommon
    /\ config \in StoreConfigs
    /\ tableExists = FALSE
    /\ facts = <<>>
    /\ autoinc = 0
    /\ index = <<>>
    /\ exInput \in SeqsUpTo(ExtractMessages, MaxExtractLen)

ExtractFacts ==
    /\ lastOp = "start"
    /\ lastOp' = "extract_facts"
    /\ exOutput' = extract_facts(exInput)
    /\ UNCHANGED <<storeVars, index, logVars, engineVars, outcome, trace, sent, ret, arg,
                   cleared, exInput>>

FilterUserMessages ==
    /\ lastOp = "start"
    /\ lastOp' = "filter_user_messages"
    /\ exOutput' = filter_user_messages(exInput)
    /\ UNCHANGED <<storeVars, index, logVars, engineVars, outcome, trace, sent, ret, arg,
                   cleared, exInput>>

ExtractNext == ExtractFacts \/ FilterUserMessages

ExtractSpec == ExtractInit /\ [][ExtractNext]_vars

-----------------------------------------------------------------------------
(* Ingestion runs: process() called again and again on one store *)

\* an export whose two messages of the user carry no id, the second with id 0
IdExport ==
    PyList(<< Msg(Arunav, TextFunny),
              PyDict(("from" :> PyStr(Arunav)) @@ ("text" :> PyStr(TextHelloThere))
                     @@ ("id" :> PyInt(0))) >>)

\* IdExport's second message after a message of another author
FilteredExport ==
    PyList(<< Msg(Bob, TextFunny), Msg(Arunav, TextHelloThere) >>)

\* FilteredExport with the first message written by the user
UnfilteredExport ==
    PyList(<< Msg(Arunav, TextFunny), Msg(Arunav, TextHelloThere) >>)

\* exports of a wrong shape: neither list nor dict; a dict without 'messages';
\* 'messages' holding a number, a string, an empty object, null; a list of non-objects
NoMessagesKey == PyDict("chats" :> PyList(<<>>))
MessagesNumber == PyDict("messages" :> PyInt(3))
MessagesString == PyDict("messages" :> PyStr(<<"h","i">>))
MessagesObject == PyDict("messages" :> PyDict(<<>>))
MessagesNull == PyDict("messages" :> PyNone)
ListOfNumbers == PyList(<<PyInt(1), PyInt(2)>>)

WrongShapes ==
    {BadExport, NoMessagesKey, MessagesNumber, MessagesString, MessagesObject, MessagesNull,
     ListOfNumbers}

IngestExports ==
    {ScenarioExport, SingleExport, EmptyExport, IdExport, FilteredExport, UnfilteredExport}
    \cup WrongShapes

IngestInit == Init

IngestRun == \E data \in IngestExports : process(MaxRows, data)

IngestNext == IngestRun

IngestSpec == IngestInit /\ [][IngestNext]_vars

-----------------------------------------------------------------------------
(* Searches over a fixed index *)

\* an export that yields one fact more than the default top_k, the texts of
\* several lengths in no particular order
BigExport ==
    PyList([i \in 1..(TOP_K_RESULTS + 1) |->
               Msg(Arunav, [j \in 1..(MinTextLen + ((i * 3) % 7)) |-> "x"])])

SearchExports == {EmptyExport, ScenarioExport, BigExport}

SearchTexts == QueryTexts \cup {<<>>, <<"t","r","a","d","i","n","g">>}

SearchTopKs == {PyNone, PyInt(0), PyInt(1), PyInt(2), PyInt(TOP_K_RESULTS + 2)}

\* the store after one ingestion of an export, and the index built from it
SearchInit ==
    /\ InitCommon
    /\ config \in StoreConfigs
    /\ \E data \in SearchExports :
          /\ tableExists = TRUE
          /\ facts = RowsFor(Pipeline(data).value, 0)
          /\ autoinc = Len(Pipeline(data).value)
          /\ index = EntriesUpTo(RowsFor(Pipeline(data).value, 0),
                                 NumBatches(Len(Pipeline(data).value), DefaultBatchSize),
                                 DefaultBatchSize, "sentence-transformers")
    /\ exInput = <<>>

SearchOnce ==
    /\ lastOp = "start"
    /\ \E q \in SearchTexts, k \in SearchTopKs, fail \in {"", "embed", "index"} : search(q, k, fail)

SearchNext == SearchOnce

SearchSpec == SearchInit /\ [][SearchNext]_vars

-----------------------------------------------------------------------------
(* Classification as a function of the text *)

\* words the texts are made of: keywords of several lists in both letter cases,
\* a keyword inside a longer word, the halves of a two-word keyword, and a
\* word that is no keyword
ClassifyWords ==
    { <<"i","n","v","e","s","t">>, <<"l","o","v","e">>, <<"L","O","V","E">>,
      <<"I","n","v","e","s","t","o","r">>, <<"h","a","h","a">>, <<"h","a","t","e","d">>,
      <<"m","o","m">>, <<"a","l","w","a","y","s">>, <<"I">>, <<"a","m">>,
      <<"U+1F602">>, <<"x","y","z">> }

\* the texts: up to MaxWords words joined by single blanks
ClassifyTexts ==
    {Join(<<" ">>, ws) : ws \in SeqsUpTo(ClassifyWords, MaxWords)}

ClassifyInit ==
    /\ InitCommon
    /\ config \in StoreConfigs
    /\ tableExists = FALSE
    /\ facts = <<>>
    /\ autoinc = 0
    /\ index = <<>>
    /\ exInput \in ClassifyTexts

Classify ==
    /\ lastOp = "start"
    /\ lastOp' = "classify"
    /\ exOutput' = ClassifyMessage(exInput)
    /\ UNCHANGED <<storeVars, index, logVars, engineVars, outcome, trace, sent, ret, arg,
                   cleared, exInput>>

ClassifyNext == Classify

ClassifySpec == ClassifyInit /\ [][ClassifyNext]_vars

-----------------------------------------------------------------------------
(* Properties *)

\* how often call occurs in a trace
Count(calls, call) == Cardinality({i \in 1..Len(calls) : calls[i] = call})

\* C1: in every state reached by ingestion, builds (confirmed, refused or
\* failed), searches and queries, each entry of the index carries as id the
\* string form of the id of exactly one row of the fact store.
C1_IndexBackedByStore ==
    \A i \in 1..Len(index) :
        Cardinality({j \in 1..Len(facts) : IntToStr(facts[j].id) = index[i].id}) = 1

\* C1 witness: an index with entries, over a store that has grown since it was built
C1_Witness == Len(index) > 0 /\ Len(facts) > Len(index) /\ lastOp = "process"

\* C2: a build that finds entries in the index and rows in the store, and is
\* answered anything but 'yes' (in any letter case) at the prompt, leaves the
\* index as it was, calls no embedding backend and raises nothing.
C2_RefusedRebuildIsNoOp ==
    [][(/\ lastOp' = "build"
        /\ Len(index) > 0
        /\ Len(facts) > 0
        /\ arg'.answer.t = "str"
        /\ Lower(arg'.answer.v) # <<"y","e","s">>)
       => (/\ index' = index
           /\ Count(trace', "embed") = 0
           /\ Count(trace', "add") = 0
           /\ outcome' = "ok")]_vars

\* C2 witness: a build was just refused with an answer that only resembles 'yes'
C2_Witness ==
    /\ lastOp = "build"
    /\ arg.answer = PyStr(<<" ","y","e","s">>)
    /\ Len(index) > 0
    /\ Len(facts) > Len(index)
    /\ outcome = "ok"

\* the entry the index is to hold for a row of the store
C3_Expected(row) ==
    [id |-> IntToStr(row.id), document |-> row.content,
     metadata |-> [type |-> row.type, source_reference |-> row.source_reference,
                   timestamp |-> row.timestamp]]

\* C3: after a build that ran to completion and added entries, the index holds
\* one entry per row of the store, in row order, with id = str(row id), the
\* content as document and {type, source_reference, timestamp} as metadata, and
\* nothing else: no entry of the index it found survives beside them.
C3_BuildNeverMerges ==
    (lastOp = "build" /\ outcome = "ok" /\ Count(trace, "add") > 0)
    => /\ Len(index) = Len(facts)
       /\ \A i \in 1..Len(index) :
             /\ [id |-> index[i].id, document |-> index[i].document,
                 metadata |-> index[i].metadata] = C3_Expected(facts[i])
             /\ index[i].embedding.text = facts[i].content

\* C3 witness: a confirmed rebuild over an index that held fewer entries than the store has rows
C3_Witness ==
    /\ lastOp = "build"
    /\ outcome = "ok"
    /\ Count(trace, "delete_collection") = 1
    /\ Count(trace, "add") = 3
    /\ Len(index) = 3

\* the messages of a list after its system message, if it starts with one
C4_Body(messages) ==
    IF messages # <<>> /\ Head(messages).role = "system" THEN Tail(messages) ELSE messages

\* C4: whichever backend is configured, the message list of a generation call
\* made with a history of n turns holds, after the system message of the OpenAI
\* variant, the last min(5, n) turns in order, each as a user message (its
\* query) and an assistant message (its response), and then one user message
\* with the context and the query; nothing of an older turn is in the list.
C4_HistoryWindow ==
    [][(lastOp' = "query" /\ sent' # <<>>)
       => LET n == Len(history)
              m == IF n < 5 THEN n ELSE 5
              body == C4_Body(sent')
              final == body[Len(body)]
          IN  /\ (config.llm = "openai") = (Head(sent').role = "system")
              /\ Len(body) = 2 * m + 1
              /\ \A k \in 1..m :
                    /\ body[2 * k - 1] = [role |-> "user", content |-> history[n - m + k].v.query]
                    /\ body[2 * k] = [role |-> "assistant", content |-> history[n - m + k].v.response]
              /\ final.role = "user"
              /\ final.content.t = "str"
              /\ Contains(final.content.v, arg'.user_query)
              /\ outcome' = "ok" => Contains(final.content.v, ret'.context)]_vars

\* C4 witness: a query answered by the OpenAI variant when the history held more than 5 turns
C4_Witness ==
    /\ lastOp = "query"
    /\ outcome = "ok"
    /\ config.llm = "openai"
    /\ Len(history) > 6
    /\ Len(sent) = 12

\* C5: clear_conversation_history empties the in-memory history and leaves the
\* log as it is; and a load with the default limit made by an engine after a
\* clear appends the turns of every line that was in the log at the clear (the
\* log being within the limit), in log order.
C5_ClearKeepsLog ==
    [][/\ (lastOp' = "clear") => (history' = <<>> /\ log' = log /\ logExists' = logExists)
       /\ (/\ lastOp' = "load"
           /\ arg'.limit = DefaultLoadLimit
           /\ cleared.at >= 0
           /\ Len(log) <= DefaultLoadLimit)
          => /\ Len(log) >= cleared.at
             /\ Len(history') >= Len(history) + cleared.at
             /\ \A i \in 1..cleared.at :
                   log[i].t = "json" /\ history'[Len(history) + i] = log[i].v]_vars

\* C5 witness: a new engine has loaded, after a clear, turns logged before that clear
C5_Witness ==
    /\ lastOp = "load"
    /\ cleared.at > PriorTurns
    /\ cleared.restarted
    /\ Len(history) = Len(log)
    /\ Len(history) > PriorTurns


\* C6: a query that returns appends one turn to the in-memory history and one
\* line to the log, the line encoding that turn; the turn has exactly the fields
\* timestamp, query, response, retrieved_facts_count and context_preview, with
\* the caller's text, the backend's text, the number of facts retrieved and the
\* first 500 characters of the context (all of it when shorter); the engine
\* stays as ready as it was.
C6_QueryRecordsTurn ==
    [][(lastOp' = "query" /\ outcome' = "ok")
       => LET turn == history'[Len(history')]
              line == log'[Len(log')]
              preview == turn.v.context_preview.v
              context == ret'.context
          IN  /\ history' = Append(history, turn)
              /\ log' = Append(log, line)
              /\ logExists'
              /\ line.t = "json" /\ line.v = turn
              /\ turn.t = "dict"
              /\ DOMAIN turn.v = {"timestamp", "query", "response", "retrieved_facts_count",
                                  "context_preview"}
              /\ turn.v.timestamp.t = "str"
              /\ turn.v.query = PyStr(arg'.user_query)
              /\ turn.v.response = arg'.reply
              /\ ret'.response = arg'.reply.v
              /\ turn.v.retrieved_facts_count = PyInt(Len(ret'.retrieved_facts))
              /\ Len(preview) = (IF Len(context) < 500 THEN Len(context) ELSE 500)
              /\ \A i \in 1..Len(preview) : preview[i] = context[i]
              /\ proc' = proc]_vars

\* C6 witness: a query has returned whose context was longer than the preview kept of it
C6_Witness ==
    /\ lastOp = "query"
    /\ outcome = "ok"
    /\ Len(ret.context) > 500
    /\ Len(history[Len(history)].v.context_preview.v) = 500
    /\ log[Len(log)].v = history[Len(history)]

\* C7: when the generation backend is called in a query and fails, the query
\* ends in an error, returns nothing, and the backend was called once.
C7_GenerationFailurePropagates ==
    (lastOp = "query" /\ arg.fail = "generate" /\ Count(trace, "generate") > 0)
    => /\ outcome # "ok"
       /\ ret = PyNone
       /\ Count(trace, "generate") = 1

\* C7 witness: a query has ended in the backend's error, with turns in the history
C7_Witness ==
    /\ lastOp = "query"
    /\ arg.fail = "generate"
    /\ outcome = "GenerationError"
    /\ Len(sent) > 2

\* C8 as claimed: when the query embedding or the index search raises, query
\* goes on with no facts, takes the placeholder as context, calls the backend
\* and returns.
C8_RetrievalFailureDegrades ==
    (lastOp = "query" /\ arg.fail \in {"embed", "index"})
    => /\ outcome = "ok"
       /\ Count(trace, "generate") = 1
       /\ ret.t # "none"
       /\ ret.context = Placeholder
       /\ ret.retrieved_facts = <<>>

\* C9 as claimed: on a closed engine no query, search, get_stats,
\* build_vector_index or clear_conversation_history succeeds or changes the
\* history, the log or the index.
C9_CloseIsTerminal ==
    [][(proc = "closed" /\ proc' = "closed"
        /\ lastOp' \in {"query", "search", "stats", "build", "clear"})
       => (outcome' # "ok" /\ history' = history /\ log' = log /\ index' = index)]_vars

\* the messages of an input whose text, trimmed, has at least 5 characters
C10_Kept(messages) ==
    SelectSeq(messages, LAMBDA m : TextOf(m).t = "str" /\ Len(Strip(TextOf(m).v)) >= 5)

\* C10: for a sequence of message objects whose text, where present, is a
\* string, extract_facts returns one fact per message whose trimmed text has at
\* least 5 characters, in order, and none for the others; each fact's content
\* is the trimmed text, which is not empty, and its raw_text the text as given.
C10_ShortMessagesDropped ==
    (/\ lastOp = "extract_facts"
     /\ \A i \in 1..Len(exInput) : exInput[i].t = "dict" /\ TextOf(exInput[i]).t = "str")
    => /\ exOutput.ok
       /\ Len(exOutput.value) = Len(C10_Kept(exInput))
       /\ \A i \in 1..Len(exOutput.value) :
             /\ exOutput.value[i].content = Strip(TextOf(C10_Kept(exInput)[i]).v)
             /\ Len(exOutput.value[i].content) >= 5
             /\ exOutput.value[i].raw_text = TextOf(C10_Kept(exInput)[i]).v

\* C10 witness: of two messages, one whose text is long enough only before
\* trimming was dropped and one that needed trimming was kept
C10_Witness ==
    /\ lastOp = "extract_facts"
    /\ Len(exInput) = 2
    /\ \A i \in 1..2 : exInput[i].t = "dict" /\ TextOf(exInput[i]).t = "str"
    /\ TextOf(exInput[1]).v = <<" "," ","h","i"," "," ">>
    /\ exOutput.ok
    /\ Len(exOutput.value) = 1
    /\ exOutput.value[1].content = <<"h","e","l","l","o">>
    /\ exOutput.value[1].raw_text = <<" ","h","e","l","l","o"," ">>

\* the k-th keyword list has a word that occurs in the lower-cased text
C11_Has(text, k) == \E w \in Keywords[k].words : Contains(Lower(text), w)

\* C11: _classify_message tests the lists in the order business, investment,
\* interest, habit, personal_trait, preference, relationship, humor and returns
\* the category of the first list with a keyword in the lower-cased text;
\* it returns general exactly when no list has one; a text with both 'invest'
\* and 'love' is never interest: it is investment, or business when a business
\* keyword occurs too.
C11_FirstMatchWins ==
    lastOp = "classify"
    => /\ [k \in 1..Len(Keywords) |-> Keywords[k].type]
            = <<TypeBusiness, TypeInvestment, TypeInterest, TypeHabit, TypePersonalTrait,
                TypePreference, TypeRelationship, TypeHumor>>
       /\ \A k \in 1..Len(Keywords) :
             (exOutput = Keywords[k].type)
             <=> (C11_Has(exInput, k) /\ \A j \in 1..(k - 1) : ~C11_Has(exInput, j))
       /\ (exOutput = TypeGeneral) <=> (\A k \in 1..Len(Keywords) : ~C11_Has(exInput, k))
       /\ (Contains(Lower(exInput), <<"i","n","v","e","s","t">>)
           /\ Contains(Lower(exInput), <<"l","o","v","e">>))
          => /\ exOutput # TypeInterest
             /\ exOutput = (IF C11_Has(exInput, 1) THEN TypeBusiness ELSE TypeInvestment)

\* C11 witness: 'LOVE invest', the interest keyword standing first, was
\* classified as investment
C11_Witness ==
    /\ lastOp = "classify"
    /\ exInput = <<"L","O","V","E"," ","i","n","v","e","s","t">>
    /\ exOutput = TypeInvestment

\* C12: a run of process() whose extraction yields n facts adds exactly n rows
\* after the rows the store held, which stay as they were; a second run on the
\* same export right after the first leaves 2n rows more than before the first,
\* the second n repeating the contents of the first n.
C12_IngestionAppends ==
    [][(lastOp' = "process" /\ outcome' = "ok")
       => LET n == Len(Pipeline(arg'.data).value)
          IN  /\ Len(facts') = Len(facts) + n
              /\ SubSeq(facts', 1, Len(facts)) = facts
              /\ (lastOp = "process" /\ outcome = "ok" /\ arg.data = arg'.data)
                 => /\ Len(facts') = arg.before + 2 * n
                    /\ \A i \in 1..n :
                          facts'[arg.before + n + i].content = facts'[arg.before + i].content]_vars

\* C12 witness: the scenario export was ingested twice into an empty store,
\* which now holds its two facts twice
C12_Witness ==
    /\ lastOp = "process"
    /\ outcome = "ok"
    /\ arg.data = ScenarioExport
    /\ arg.before = 2
    /\ Len(facts) = 4
    /\ facts[3].content = facts[1].content
    /\ facts[4].content = facts[2].content

\* C13: the ids of the rows increase strictly in the order of insertion, so no
\* two rows share an id and a later row has a greater id than every earlier
\* one; the rows of one run stand in the order their facts were extracted.
C13_IdsIncrease ==
    /\ \A i, j \in 1..Len(facts) : i < j => facts[i].id < facts[j].id
    /\ (lastOp = "process" /\ outcome = "ok")
       => LET new == Pipeline(arg.data).value
          IN  /\ Len(facts) = arg.before + Len(new)
              /\ \A i \in 1..Len(new) :
                    /\ facts[arg.before + i].content = new[i].content
                    /\ \A j \in 1..arg.before : facts[arg.before + i].id > facts[j].id

\* C13 witness: a second ingestion has added two rows to a store that held two
C13_Witness ==
    /\ lastOp = "process"
    /\ outcome = "ok"
    /\ arg.before = 2
    /\ Len(facts) = 4
    /\ facts[3].id > facts[2].id
    /\ facts[4].id > facts[3].id

C15_TopKNearestFirst ==
    (/\ lastOp = "search"
     /\ arg.fail = ""
     /\ (arg.top_k.t = "none" \/ arg.top_k.v >= 1))
    => LET k == IF arg.top_k.t = "none" THEN 10 ELSE arg.top_k.v
           hits == ret.v
       IN  /\ outcome = "ok"
           /\ ret.t = "list"
           /\ Len(hits) = (IF k <= Len(index) THEN k ELSE Len(index))
           /\ \A i \in 1..Len(hits) :
                 /\ DOMAIN hits[i] = {"content", "type", "source_reference", "timestamp",
                                      "distance"}
                 /\ \E e \in 1..Len(index) :
                       /\ hits[i].content = index[e].document
                       /\ hits[i].type = index[e].metadata.type
                       /\ hits[i].source_reference = index[e].metadata.source_reference
                       /\ hits[i].timestamp = index[e].metadata.timestamp
           /\ \A i \in 1..(Len(hits) - 1) : hits[i].distance <= hits[i + 1].distance

\* C15 witness: a search without top_k over 11 entries has returned 10 facts,
\* not all at the same distance
C15_Witness ==
    /\ lastOp = "search"
    /\ outcome = "ok"
    /\ arg.top_k = PyNone
    /\ Len(index) = 11
    /\ Len(ret.v) = 10
    /\ ret.v[1].distance < ret.v[10].distance

C17_NoMemories ==
    <<"N","o"," ","r","e","l","e","v","a","n","t"," ","m","e","m","o","r","i","e","s"," ",
      "f","o","u","n","d",".">>

\* the facts of a retrieval, each as '[type] content', one per line
RECURSIVE C17_Rendered(_)
C17_Rendered(found) ==
    IF found = <<>> THEN <<>>
    ELSE <<"[">> \o Head(found).type \o <<"]", " ">> \o Head(found).content
         \o (IF Len(found) = 1 THEN <<>> ELSE <<"\n">> \o C17_Rendered(Tail(found)))

\* C17: a query that returns after a retrieval without facts has called the
\* generation backend once with 'No relevant memories found.' as the context
\* of its last message and reports facts_retrieved = 0; one that returns after
\* a retrieval with facts has as context the facts as '[type] content' lines in
\* retrieval order, which starts with '[' and differs from the placeholder.
C17_PlaceholderOrFacts ==
    (lastOp = "query" /\ outcome = "ok")
    => LET found == ret.retrieved_facts
           context == ret.context
       IN  /\ Count(trace, "generate") = 1
           /\ sent[Len(sent)].role = "user"
           /\ Contains(sent[Len(sent)].content.v, context)
           /\ ret.metadata.facts_retrieved = Len(found)
           /\ IF found = <<>>
              THEN context = C17_NoMemories
              ELSE /\ context = C17_Rendered(found)
                   /\ context[1] = "["
                   /\ context # C17_NoMemories

\* C17 witness: a query over an index without entries has returned, the
\* backend having been sent the placeholder
C17_Witness ==
    /\ lastOp = "query"
    /\ outcome = "ok"
    /\ Len(index) = 0
    /\ ret.retrieved_facts = <<>>
    /\ ret.metadata.facts_retrieved = 0
    /\ Count(trace, "generate") = 1
    /\ Contains(sent[Len(sent)].content.v, C17_NoMemories)

\* a message is well-formed: an object with a string sender, a string text and a timestamp
C18_WellFormed(m) ==
    /\ m.t = "dict"
    /\ SenderOf(m).t = "str"
    /\ TextOf(m).t = "str" /\ Truthy(TextOf(m))
    /\ Truthy(TimestampOf(m))

\* C18 as claimed: filter_user_messages and extract_facts raise on no input; a
\* message that is not an object, has a sender or text that is no string, or
\* lacks text or timestamp, gives no fact, and the other messages give theirs.
C18_MalformedSkipped ==
    (lastOp \in {"extract_facts", "filter_user_messages"})
    => /\ exOutput.ok
       /\ lastOp = "extract_facts"
          => LET good == SelectSeq(exInput, LAMBDA m : C18_WellFormed(m)
                                                       /\ Len(Strip(TextOf(m).v)) >= 5)
             IN  /\ Len(exOutput.value) = Len(good)
                 /\ \A i \in 1..Len(good) :
                       exOutput.value[i].content = Strip(TextOf(good[i]).v)

\* a list whose items are all objects
C19_MessageList(x) == x.t = "list" /\ \A i \in 1..Len(x.v) : x.v[i].t = "dict"

\* the export has one of the two shapes: a list of message objects, or an
\* object whose 'messages' is such a list
C19_ShapeOk(data) ==
    \/ C19_MessageList(data)
    \/ (data.t = "dict" /\ "messages" \in DOMAIN data.v /\ C19_MessageList(data.v["messages"]))

\* C19 as claimed: process() on an export of neither shape ends in the shape
\* error of load_json (ValueError) and leaves the store as it was: no row, no table.
C19_WrongShapeRejected ==
    [][(lastOp' = "process" /\ ~C19_ShapeOk(arg'.data))
       => /\ outcome' = "ValueError"
          /\ facts' = facts
          /\ tableExists' = tableExists]_vars

\* the messages of an export of one of the two shapes
C20_Messages(data) == IF data.t = "list" THEN data.v ELSE data.v["messages"].v

\* the positions (from 1) of the messages of the user that are long enough
C20_Survivors(msgs) ==
    SelectSeq([i \in 1..Len(msgs) |-> i],
              LAMBDA i : /\ Contains(Lower(SenderOf(msgs[i]).v), Lower(USER_NAME))
                         /\ ~SkipMessage(msgs[i]))

\* C20 as claimed: after a run of process(), the row of each surviving message
\* has as source_reference 'msg_' and the message's own id when it has one,
\* and otherwise its index (from 0) in the export, whatever other messages
\* were filtered out or dropped.
C20_ReferenceFromIdOrPosition ==
    [][(lastOp' = "process" /\ outcome' = "ok" /\ C19_ShapeOk(arg'.data))
       => LET msgs == C20_Messages(arg'.data)
              at == C20_Survivors(msgs)
          IN  /\ Len(facts') = Len(facts) + Len(at)
              /\ \A j \in 1..Len(at) :
                    facts'[Len(facts) + j].source_reference
                    = <<"m","s","g","_">> \o
                      (IF "id" \in DOMAIN msgs[at[j]].v
                       THEN Format(msgs[at[j]].v["id"])
                       ELSE IntToStr(at[j] - 1))]_vars

-----------------------------------------------------------------------------
(* The assistant's start: JarvisAssistant.__init__ loads the history from the
   log file it finds, and the conversation goes on from there *)

MaxStartupTurns == 2   \* clock readings (generated turns) after a start

\* a log of n turns written by earlier runs
LogOf(n) ==
    [i \in 1..n |-> JsonLine(TurnOf(i, <<"h","i">>, <<"r">> \o IntToStr(i), <<>>, Placeholder))]

\* the log files a start may find: none at all (logExists = FALSE); an empty
\* one; logs of turns, shorter and longer than the default limit; a log whose
\* second line was cut short by a crash, and so is not JSON; logs holding a
\* line that is JSON but no turn (a number; an object without 'response')
StartupLogs ==
    {[exists |-> FALSE, lines |-> <<>>],
     [exists |-> TRUE, lines |-> <<>>],
     [exists |-> TRUE, lines |-> PriorLog],
     [exists |-> TRUE, lines |-> LogOf(DefaultLoadLimit + 1)],
     [exists |-> TRUE,
      lines |-> <<LogOf(3)[1], [t |-> "text", v |-> <<"{","\"","t","i">>], LogOf(3)[3]>>],
     [exists |-> TRUE, lines |-> <<LogOf(1)[1], JsonLine(PyInt(42))>>],
     [exists |-> TRUE,
      lines |-> <<LogOf(1)[1], JsonLine(PyDict("query" :> PyStr(<<"h","i">>)))>>]}

StartupInit ==
    /\ proc = "ready"
    /\ config \in StoreConfigs
    /\ history = <<>>
    /\ loads = 0
    /\ now = DefaultLoadLimit + 1
    /\ \E file \in StartupLogs :
          /\ log = file.lines
          /\ logExists = file.exists
    /\ tableExists = TRUE
    /\ facts = <<>>
    /\ autoinc = 0
    /\ index = <<>>
    /\ lastOp = "start"
    /\ outcome = "ok"
    /\ trace = <<>>
    /\ sent = <<>>
    /\ ret = PyNone
    /\ arg = NoArg
    /\ cleared = [at |-> -1, restarted |-> FALSE]
    /\ exInput = <<>>
    /\ exOutput = PyNone

\* the load of __init__, the first thing that happens to the history
StartupLoad ==
    /\ lastOp = "start"
    /\ \E limit \in {0, 2, DefaultLoadLimit} : load_conversation_history(limit)

StartupQuery ==
    /\ loads > 0
    /\ \E q \in QueryTexts, fail \in {"", "generate", "log"}, r \in Responses :
          query(DefaultLoadLimit + 1 + MaxStartupTurns, q, PyNone, fail, r)

StartupClear ==
    /\ loads > 0
    /\ clear_conversation_history

StartupNext == StartupLoad \/ StartupQuery \/ StartupClear

StartupSpec == StartupInit /\ [][StartupNext]_vars

\* every line of the log is a turn, as the lines _save_conversation_turn writes are
C21_LogOfTurns == \A i \in 1..Len(log) : log[i].t = "json" /\ TurnReadable(log[i].v)

\* the most recent n turns of a log of turns, in log order
C21_MostRecent(lines, n) ==
    [i \in 1..Min(n, Len(lines)) |-> lines[Len(lines) - Min(n, Len(lines)) + i].v]

\* C21: the load at startup with limit N makes the history the most recent N
\* turns of the log, in log order (all of them when the log holds fewer, none
\* when there is no log), and leaves the log as it was
C21_StartupLoadsMostRecent ==
    [][(lastOp' = "load" /\ C21_LogOfTurns)
        => /\ history' = (IF logExists THEN C21_MostRecent(log, arg'.limit) ELSE <<>>)
           /\ log' = log
           /\ logExists' = logExists]_vars

\* the same for limits of at least 1
C21_PositiveLimitLoadsMostRecent ==
    [][(lastOp' = "load" /\ C21_LogOfTurns /\ arg'.limit >= 1)
        => /\ history' = (IF logExists THEN C21_MostRecent(log, arg'.limit) ELSE <<>>)
           /\ log' = log
           /\ logExists' = logExists]_vars

\* C22: the history in memory is a bounded working set: after any sequence of
\* loads, queries and clears it holds at most N turns, older turns being
\* trimmed from memory; N is the default load limit, the one bound on turns
\* that the code has
C22_HistoryBounded == Len(history) <= DefaultLoadLimit

-----------------------------------------------------------------------------
(* The construction of the assistant under every configuration: the checks of
   validate_config, then the handles RAGEngine() and MemoryStore() open *)

\* config.validate_config(): the API key the chosen provider needs is present
ValidateConfig(cfg) ==
    IF cfg.llm = "anthropic" /\ ~cfg.anthropic_key THEN "ValueError"
    ELSE IF cfg.llm = "openai" /\ ~cfg.openai_key THEN "ValueError"
    ELSE IF cfg.emb = "openai" /\ ~cfg.openai_key THEN "ValueError"
    ELSE "ok"

\* MemoryStore.__init__: the calls made, in order, and how it ends
MemoryStoreInit(cfg) ==
    LET opened == <<"sqlite3.connect", "chromadb.PersistentClient", "get_or_create_collection">>
    IN  IF cfg.emb = "sentence-transformers"
        THEN [outcome |-> "ok", trace |-> opened \o <<"SentenceTransformer">>]
        ELSE IF cfg.emb = "openai"
        THEN [outcome |-> "ok", trace |-> opened]
        ELSE [outcome |-> "ValueError", trace |-> opened]

\* RAGEngine.__init__: the memory store first, then the LLM client
RAGEngineInit(cfg) ==
    LET memory == MemoryStoreInit(cfg)
    IN  IF memory.outcome # "ok" THEN memory
        ELSE IF cfg.llm = "anthropic"
        THEN [outcome |-> "ok", trace |-> memory.trace \o <<"anthropic.Anthropic">>]
        ELSE IF cfg.llm = "openai"
        THEN [outcome |-> "ok", trace |-> memory.trace]
        ELSE [outcome |-> "ValueError", trace |-> memory.trace]

\* JarvisAssistant.__init__ up to the load of the history
AssistantInit(cfg) ==
    IF ValidateConfig(cfg) # "ok"
    THEN [outcome |-> ValidateConfig(cfg), trace |-> <<"validate_config">>]
    ELSE [outcome |-> RAGEngineInit(cfg).outcome,
          trace |-> <<"validate_config">> \o RAGEngineInit(cfg).trace]

\* JarvisAssistant(): nothing in __init__ or in main() catches an exception of
\* the construction, so what was opened before it stays open
startup ==
    LET made == AssistantInit(config)
    IN  /\ proc = "off"
        /\ proc' = IF made.outcome = "ok" THEN "ready" ELSE "failed"
        /\ lastOp' = "startup"
        /\ outcome' = made.outcome
        /\ trace' = made.trace
        /\ history' = IF made.outcome = "ok" THEN LoadedTurns(DefaultLoadLimit) ELSE <<>>
        /\ loads' = IF made.outcome = "ok" THEN 1 ELSE 0
        /\ sent' = <<>>
        /\ ret' = PyNone
        /\ arg' = NoArg
        /\ UNCHANGED <<storeVars, index, logVars, config, now, cleared, extractVars>>

ConfigInit ==
    /\ proc = "off"
    /\ config \in [llm : {"anthropic", "openai", "gemini"},
                   emb : {"sentence-transformers", "openai", "cohere"},
                   anthropic_key : BOOLEAN, openai_key : BOOLEAN]
    /\ history = <<>>
    /\ loads = 0
    /\ now = PriorTurns
    /\ \E lines \in {<<>>, PriorLog} :
          /\ log = lines
          /\ logExists = (lines # <<>>)
    /\ tableExists = TRUE
    /\ facts = <<>>
    /\ autoinc = 0
    /\ index = <<>>
    /\ lastOp = "none"
    /\ outcome = "ok"
    /\ trace = <<>>
    /\ sent = <<>>
    /\ ret = PyNone
    /\ arg = NoArg
    /\ cleared = [at |-> -1, restarted |-> FALSE]
    /\ exInput = <<>>
    /\ exOutput = PyNone

ConfigNext == startup

ConfigSpec == ConfigInit /\ [][ConfigNext]_vars

\* a required credential is missing, or a provider selection is not supported
C23_Misconfigured ==
    \/ config.llm = "anthropic" /\ ~config.anthropic_key
    \/ config.llm = "openai" /\ ~config.openai_key
    \/ config.emb = "openai" /\ ~config.openai_key
    \/ config.llm \notin {"anthropic", "openai"}
    \/ config.emb \notin {"sentence-transformers", "openai"}

\* the calls that open the fact store, the vector index and the models
C23_Opening ==
    {"sqlite3.connect", "chromadb.PersistentClient", "get_or_create_collection",
     "SentenceTransformer", "anthropic.Anthropic"}

\* C23: under a configuration error the start fails, and it fails before a
\* fact-store connection, a vector-index client or an embedding model is
\* opened, so that no handle is left open
C23_ConfigErrorsFailBeforeOpening ==
    (lastOp = "startup" /\ C23_Misconfigured)
        => /\ outcome = "ValueError"
           /\ \A i \in 1..Len(trace) : trace[i] \notin C23_Opening

\* the part of it that holds: a missing credential stops the start before
\* anything is opened, and every configuration error stops it
C23_ConfigErrorsFail ==
    /\ (lastOp = "startup" /\ C23_Misconfigured) => outcome = "ValueError"
    /\ (lastOp = "startup" /\ ValidateConfig(config) # "ok") => trace = <<"validate_config">>

-----------------------------------------------------------------------------
(* The embedding backend over process starts: EMBEDDING_PROVIDER is read anew
   by every process, the index persists *)

\* the configurations a process may start under
BackendConfigs == [llm : {"anthropic"}, emb : {"sentence-transformers", "openai"}]

\* a store ingested once, nothing indexed yet
BackendInit ==
    /\ InitCommon
    /\ config \in BackendConfigs
    /\ tableExists = TRUE
    /\ facts = RowsFor(Pipeline(ScenarioExport).value, 0)
    /\ autoinc = Len(Pipeline(ScenarioExport).value)
    /\ index = <<>>
    /\ exInput = <<>>

BackendRestart == \E cfg \in BackendConfigs : restart(cfg)

\* when the vectors of the index come from another backend than the query
\* vector of a search, Chroma raises if the two have different dimensions
\* (fail = "index") and answers if they have the same (fail = ""): which,
\* depends on the models configured
BackendNext == Build \/ Search \/ BackendRestart

BackendSpec == BackendInit /\ [][BackendNext]_vars

\* C24: every search that is answered embedded its query with the backend
\* that produced the vectors in the index, whatever starts, changes of
\* EMBEDDING_PROVIDER, builds and searches came before; a search with another
\* backend is detected (it fails) and not answered
C24_SearchBackendIsBuildBackend ==
    (lastOp = "search" /\ outcome = "ok")
        => \A i \in 1..Len(index) : index[i].embedding.provider = config.emb

-----------------------------------------------------------------------------
(* The log file, the order of a query's steps, failures and rebuilds *)

\* C25: the log is append-only: whatever the operation (query, load, clear,
\* close, a new start), the log before it is a prefix of the log after it, and
\* only a query adds a line, one at a time
C25_LogAppendOnly ==
    [][/\ Len(log') >= Len(log)
       /\ SubSeq(log', 1, Len(log)) = log
       /\ (log' # log => (lastOp' = "query" /\ Len(log') = Len(log) + 1))
       /\ (logExists => logExists')]_vars

\* two queries were logged after the earlier turns, and a load and a clear
\* happened on the way
C25_Witness ==
    /\ Len(log) = PriorTurns + MaxTurns
    /\ SubSeq(log, 1, PriorTurns) = PriorLog
    /\ cleared.at >= 0
    /\ loads > 0

\* the steps of a query, in the order claimed
C26_Order == <<"embed", "collection.query", "generate", "history.append", "log.append", "return">>

\* the steps a query made, among those of C26_Order
C26_Made == SelectSeq(trace, LAMBDA step : \E i \in 1..Len(C26_Order) : C26_Order[i] = step)

\* C26: within a query the steps happen in a fixed order and each at most
\* once: one query embedding and one index search before the generation call,
\* none after; the appends to memory and to the log after the generation has
\* returned; the return after the log append. A query that fails made a
\* prefix of these steps, a query that succeeds made all of them.
C26_StepsInOrder ==
    lastOp = "query"
        => /\ Len(C26_Made) <= Len(C26_Order)
           /\ C26_Made = SubSeq(C26_Order, 1, Len(C26_Made))
           /\ (outcome = "ok" <=> C26_Made = C26_Order)
           /\ (outcome = "ok" => trace = C26_Order)

\* a query over a non-empty index succeeded, with earlier turns in the history
C26_Witness ==
    /\ lastOp = "query"
    /\ outcome = "ok"
    /\ trace = C26_Order
    /\ Len(ret.retrieved_facts) > 0
    /\ Len(history) > 1

\* the turns of the log, in file order
C27_LogTurns ==
    LET parsed == SelectSeq(log, LAMBDA line : line.t = "json")
    IN  [i \in 1..Len(parsed) |-> parsed[i].v]

\* C27: after the load of a start, queries (succeeding, failing in the
\* generation, failing in the log write) and clears, the history in memory is
\* a contiguous suffix of the turns of the log: memory holds no turn that the
\* log lacks
C27_HistoryIsLogSuffix ==
    \E k \in 0..Len(C27_LogTurns) :
        history = SubSeq(C27_LogTurns, k + 1, Len(C27_LogTurns))

\* the suffix relation is kept by every step but a query whose log write fails
C27_SuffixWhileLogWritesSucceed ==
    [][(C27_HistoryIsLogSuffix /\ ~(lastOp' = "query" /\ outcome' = "OSError"))
        => C27_HistoryIsLogSuffix']_vars

\* C28: a query whose generation call fails leaves the history in memory and
\* the log exactly as they were, no partial turn being recorded; so the same
\* query made again right away sends the same messages, history window
\* included, as the failed attempt did
C28_FailedGenerationChangesNothing ==
    [][/\ (lastOp' = "query" /\ arg'.fail = "generate" /\ Count(trace', "generate") > 0)
          => /\ history' = history
             /\ log' = log
             /\ logExists' = logExists
       /\ (/\ lastOp = "query" /\ outcome = "GenerationError"
           /\ lastOp' = "query" /\ arg'.user_query = arg.user_query
           /\ Count(trace', "generate") > 0)
          => sent' = sent]_vars

\* a query failed in the generation after an earlier query had been recorded
\* on top of the loaded turns
C28_Witness ==
    /\ lastOp = "query"
    /\ outcome = "GenerationError"
    /\ Len(log) > PriorTurns
    /\ Len(history) > HistoryWindow
    /\ Len(sent) > HistoryWindow

\* the first n entries of the index are the entries of the first n rows
C29_FirstRowsIndexed(entries, rows, n) ==
    /\ Len(entries) = n
    /\ \A i \in 1..n :
          /\ [id |-> entries[i].id, document |-> entries[i].document,
              metadata |-> entries[i].metadata] = C3_Expected(rows[i])
          /\ entries[i].embedding.text = rows[i].content

\* C29: when the embedding backend fails in batch j of a confirmed rebuild of
\* a non-empty index, the index holds the entries of batches 0..j-1 and
\* nothing else (no earlier entry outside those batches), and the fact store
\* is as it was; a build that completes after it leaves one entry per fact
C29_FailedRebuildKeepsDoneBatches ==
    [][/\ (lastOp' = "build" /\ outcome' = "EmbeddingError" /\ Len(index) > 0)
          => /\ C29_FirstRowsIndexed(index', facts,
                    Min(Count(trace', "add") * arg'.batch_size, Len(facts)))
             /\ Count(trace', "add") * arg'.batch_size < Len(facts)
             /\ facts' = facts
             /\ tableExists' = tableExists
             /\ autoinc' = autoinc
       /\ (/\ lastOp = "build" /\ outcome = "EmbeddingError"
           /\ lastOp' = "build" /\ outcome' = "ok" /\ Count(trace', "add") > 0)
          => C29_FirstRowsIndexed(index', facts', Len(facts'))]_vars

\* a rebuild of an index of three entries, one fact to a batch, has failed in
\* its second batch
C29_Witness ==
    /\ lastOp = "build"
    /\ outcome = "EmbeddingError"
    /\ trace = <<"input", "delete_collection", "embed", "add", "embed">>
    /\ Len(facts) = MaxFacts
    /\ Len(index) = 1

\* C30: every entry that load_conversation_history puts in the history is a
\* turn with the fields 'query' and 'response', lines that are not JSON or not
\* such a turn being skipped; so no later query fails in assembling the
\* prompt from the history
C30_LoadedEntriesAreTurns ==
    /\ \A i \in 1..Len(history) :
          /\ history[i].t = "dict"
          /\ {"query", "response"} \subseteq DOMAIN history[i].v
    /\ ~(lastOp = "query" /\ outcome \in {"KeyError", "TypeError"})

\* the part of it that holds: a line that is not JSON is never loaded
C30_NonJsonLinesSkipped ==
    [][lastOp' = "load"
        => Len(history') = Cardinality({i \in 1..Len(LastSlice(log, arg'.limit)) :
                                            LastSlice(log, arg'.limit)[i].t = "json"})]_vars

=============================================================================
